---- MODULE Spec2Model ----
(***************************************************************************)
(* envconfig: fields of a configuration struct are mapped to environment   *)
(* keys (fieldName.Keys), discovered by a walk over the struct             *)
(* (ParseWithOptions / readStruct) and populated from the environment      *)
(* (ConfInfo.Read / Field.setField).                                       *)
(*                                                                         *)
(* A Go string is a sequence of one-character strings; the characters the  *)
(* model uses are listed in ASCII in byte order.                           *)
(***************************************************************************)
EXTENDS Integers, Sequences, FiniteSets, TLC

VARIABLES
    name,     \* fieldName handed to Keys()
    res,      \* what Keys() returned (<<>> before the call)
    kpc,      \* "in" before the call of Keys(), "out" after it, "off" when unused
    ctype,    \* the type of the configuration struct (fixed by the caller)
    conf,     \* the configuration struct: the value the caller passes by pointer
    env,      \* the process environment: key -> value, <<>> when not set
    cinfo,    \* the ConfInfo returned by ParseWithOptions: a sequence of Field
    options,  \* the Options handed to ParseWithOptions
    pstate,   \* "new" before ParseWithOptions, then "parsed" or "failed"
    perr,     \* the error ParseWithOptions returned
    reads,    \* number of calls of Read so far
    rerr,     \* the error the last Read returned
    rat,      \* index in cinfo of the descriptor the last Read failed at (0: none)
    looked    \* the keys the last Read passed to os.Getenv, in call order

kvars == <<name, res, kpc>>
mvars == <<ctype, conf, env, cinfo, options, pstate, perr, reads, rerr, rat, looked>>
vars == <<kvars, mvars>>

(***************************************************************************)
(* Characters and strings                                                  *)
(***************************************************************************)
ASCII ==
    << "(", ")", ",", "-",
       "0", "1", "2", "3", "4", "5", "6", "7", "8", "9",
       "=",
       "A", "B", "C", "D", "E", "F", "G", "H", "I", "J", "K", "L", "M",
       "N", "O", "P", "Q", "R", "S", "T", "U", "V", "W", "X", "Y", "Z",
       "_",
       "a", "b", "c", "d", "e", "f", "g", "h", "i", "j", "k", "l", "m",
       "n", "o", "p", "q", "r", "s", "t", "u", "v", "w", "x", "y", "z" >>

Ord(c) == CHOOSE i \in 1..Len(ASCII) : ASCII[i] = c

UpperLetters == { ASCII[i] : i \in Ord("A")..Ord("Z") }
LowerLetters == { ASCII[i] : i \in Ord("a")..Ord("z") }

IsUpper(c) == c \in UpperLetters
IsLower(c) == c \in LowerLetters

ToUpperRune(c) == IF IsLower(c) THEN ASCII[Ord(c) - Ord("a") + Ord("A")] ELSE c
ToLowerRune(c) == IF IsUpper(c) THEN ASCII[Ord(c) - Ord("A") + Ord("a")] ELSE c

ToUpper(s) == [i \in 1..Len(s) |-> ToUpperRune(s[i])]
ToLower(s) == [i \in 1..Len(s) |-> ToLowerRune(s[i])]

\* byte-wise comparison of two strings, as Go's < on strings
RECURSIVE StrLess(_, _)
StrLess(a, b) ==
    IF b = <<>> THEN FALSE
    ELSE IF a = <<>> THEN TRUE
    ELSE IF Head(a) = Head(b) THEN StrLess(Tail(a), Tail(b))
    ELSE Ord(Head(a)) < Ord(Head(b))

Range(seq) == { seq[i] : i \in DOMAIN seq }

\* F applied to the value of e, e being evaluated once
With(e, F(_)) == CHOOSE y \in { F(v) : v \in {e} } : TRUE

\* strings.Join
RECURSIVE Join(_, _)
Join(strs, sep) ==
    IF strs = <<>> THEN <<>>
    ELSE IF Len(strs) = 1 THEN strs[1]
    ELSE strs[1] \o sep \o Join(Tail(strs), sep)

(***************************************************************************)
(* fieldName.Keys                                                          *)
(***************************************************************************)
\* the guard of the extra underscore, at 0-based index i of the segment n
\* (n[i + 1] is rune i of a 1-based sequence)
prevOrNextLower(n, i) ==
    /\ i + 1 < Len(n)
    /\ i - 1 > 0
    /\ (IsLower(n[i + 2]) \/ IsLower(n[i]))

\* what the inner loop appends to buf for the rune at 0-based index i
bufRune(n, i) ==
    IF i > 0 /\ IsUpper(n[i + 1]) /\ prevOrNextLower(n, i)
    THEN <<"_", n[i + 1]>>
    ELSE <<n[i + 1]>>

RECURSIVE bufPartFrom(_, _)
bufPartFrom(n, i) ==
    IF i >= Len(n) THEN <<>> ELSE bufRune(n, i) \o bufPartFrom(n, i + 1)

\* buf: the path with extra underscores on "word" boundaries
RECURSIVE bufOf(_, _)
bufOf(nm, j) ==
    IF j > Len(nm) THEN <<>>
    ELSE (IF j > 1 THEN <<"_">> ELSE <<>>) \o bufPartFrom(nm[j], 0) \o bufOf(nm, j + 1)

\* buf2: the path in the standard naming scheme
RECURSIVE buf2Of(_, _)
buf2Of(nm, j) ==
    IF j > Len(nm) THEN <<>>
    ELSE (IF j > 1 THEN <<"_">> ELSE <<>>) \o nm[j] \o buf2Of(nm, j + 1)

\* the key set collected in the map tmp
keyMap(nm) ==
    { ToLower(bufOf(nm, 1)), ToUpper(bufOf(nm, 1)),
      ToLower(buf2Of(nm, 1)), ToUpper(buf2Of(nm, 1)) }

\* sort.Strings: insertion of each element into the sorted prefix
RECURSIVE insertSorted(_, _)
insertSorted(sorted, s) ==
    IF sorted = <<>> THEN <<s>>
    ELSE IF StrLess(s, Head(sorted)) THEN <<s>> \o sorted
    ELSE <<Head(sorted)>> \o insertSorted(Tail(sorted), s)

RECURSIVE sortFrom(_, _)
sortFrom(seq, k) ==
    IF k = 0 THEN <<>> ELSE insertSorted(sortFrom(seq, k - 1), seq[k])

UnsortedStrings(seq) == seq

sortStrings(seq) == sortFrom(seq, Len(seq))

\* the orders in which "for k := range tmp" may yield the keys of the map
RangeOrders(S) ==
    { f \in [1..Cardinality(S) -> S] : \A x \in S : \E i \in DOMAIN f : f[i] = x }

\* Keys() when the map iteration yields the keys in the order `order`
fieldNameKeys(nm, order) == sortStrings(order)

\* Keys() as every caller sees it: the result is the same for every order
Keys(nm) == sortStrings(CHOOSE f \in RangeOrders(keyMap(nm)) : TRUE)

(***************************************************************************)
(* Types and values of the configuration struct                            *)
(*                                                                         *)
(* A type is a record: kind (reflect.Kind), bits (width of an integer      *)
(* kind), unm (the type or its pointer type implements Unmarshaler), elem  *)
(* (<<element type>> of a pointer or slice), fields (of a struct; a field  *)
(* is [name, tag, type]).  A value is a string, an integer, a              *)
(* sequence of elements (slice), a sequence of field values (struct), or   *)
(* for a pointer <<>> (nil) or <<pointee>>.  A reflect.Value that refers   *)
(* into conf is the access path to it: a sequence of field indexes, 0      *)
(* standing for a pointer dereference.                                     *)
(***************************************************************************)
StringT == [kind |-> "string", bits |-> 0, unm |-> FALSE, elem |-> <<>>, fields |-> <<>>]
IntT(w) == [kind |-> "int", bits |-> w, unm |-> FALSE, elem |-> <<>>, fields |-> <<>>]
UintT(w) == [kind |-> "uint", bits |-> w, unm |-> FALSE, elem |-> <<>>, fields |-> <<>>]
SliceT(e) == [kind |-> "slice", bits |-> 0, unm |-> FALSE, elem |-> <<e>>, fields |-> <<>>]
PtrT(e) == [kind |-> "ptr", bits |-> 0, unm |-> FALSE, elem |-> <<e>>, fields |-> <<>>]
StructT(fs) == [kind |-> "struct", bits |-> 0, unm |-> FALSE, elem |-> <<>>, fields |-> fs]
\* the same type with an Unmarshal(string) error method on its pointer
WithUnmarshal(t) == [t EXCEPT !.unm = TRUE]

\* Options
OptionsOf(prefix, allOptional, allowUnexported) ==
    [Prefix |-> prefix, AllOptional |-> allOptional, AllowUnexported |-> allowUnexported]

\* the zero value of a type
RECURSIVE Zero(_)
Zero(t) ==
    CASE t.kind \in {"int", "uint"} -> 0
      [] t.kind = "struct" -> [i \in 1..Len(t.fields) |-> Zero(t.fields[i].type)]
      [] OTHER -> <<>>

Step(k) == IF k = 0 THEN 1 ELSE k

RECURSIVE GetAt(_, _)
GetAt(v, ref) ==
    IF ref = <<>> THEN v ELSE GetAt(v[Step(Head(ref))], Tail(ref))

RECURSIVE SetAt(_, _, _)
SetAt(v, ref, x) ==
    IF ref = <<>> THEN x
    ELSE [v EXCEPT ![Step(Head(ref))] = SetAt(@, Tail(ref), x)]

(***************************************************************************)
(* parseTag                                                                *)
(***************************************************************************)
HasPrefix(v, p) == Len(v) >= Len(p) /\ SubSeq(v, 1, Len(p)) = p
TrimPrefix(v, p) == IF HasPrefix(v, p) THEN SubSeq(v, Len(p) + 1, Len(v)) ELSE v

\* the first loop: split on commas that no backslash escapes
RECURSIVE tagTokens(_, _, _, _)
tagTokens(s, k, escape, tokens) ==
    IF k > Len(s) THEN tokens
    ELSE IF ~escape /\ s[k] = "\\" THEN tagTokens(s, k + 1, TRUE, tokens)
    ELSE IF ~escape /\ s[k] = "," THEN tagTokens(s, k + 1, FALSE, Append(tokens, <<>>))
    ELSE tagTokens(s, k + 1, FALSE,
                   [tokens EXCEPT ![Len(tokens)] = Append(@, s[k])])

DefaultEq == <<"d", "e", "f", "a", "u", "l", "t", "=">>
NoteEq == <<"n", "o", "t", "e", "=">>
OptionalWord == <<"o", "p", "t", "i", "o", "n", "a", "l">>

\* the second loop: one token's effect on the tag (the first case that matches)
tagApply(t, v) ==
    IF v = <<"-">> THEN [t EXCEPT !.skip = TRUE]
    ELSE IF v = OptionalWord THEN [t EXCEPT !.optional = TRUE]
    ELSE IF HasPrefix(v, DefaultEq) THEN [t EXCEPT !.defaultVal = TrimPrefix(v, DefaultEq)]
    ELSE IF HasPrefix(v, NoteEq) THEN [t EXCEPT !.note = TrimPrefix(v, NoteEq)]
    ELSE [t EXCEPT !.customName = v]

RECURSIVE tagFold(_, _, _)
tagFold(t, tokens, k) ==
    IF k > Len(tokens) THEN t ELSE tagFold(tagApply(t, tokens[k]), tokens, k + 1)

parseTag(s) ==
    tagFold([customName |-> <<>>, optional |-> FALSE, skip |-> FALSE,
             defaultVal |-> <<>>, note |-> <<>>],
            tagTokens(s, 1, FALSE, << <<>> >>), 1)

(***************************************************************************)
(* ParseWithOptions / readStruct: the walk                                 *)
(***************************************************************************)
\* fieldName.Append
NameAppend(nm, newfield) == Append(nm, newfield)

\* reflect.Value.CanSet of a field reached through settable fields of a
\* struct passed by pointer: the field is exported, that is, its name starts
\* with an upper-case letter
CanSet(f) == IsUpper(f.name[1])

isUnmarshaler(t) == t.unm

NewField(ctx, f, tag, t, ref) ==
    [ name |-> NameAppend(ctx.name, f.name),
      value |-> ref,
      typ |-> t,
      strValue |-> <<>>,
      customName |-> tag.customName,
      defaultVal |-> tag.defaultVal,
      note |-> tag.note,
      optional |-> ctx.optional \/ tag.optional,
      allowUnexported |-> ctx.allowUnexported ]

\* acc = [err, config, root]: the error so far, the ConfInfo being built and
\* the caller's struct (the walk allocates nil pointers in it)
RECURSIVE readStruct(_, _, _, _, _)
RECURSIVE doRead(_, _, _, _, _, _)
RECURSIVE readField(_, _, _, _, _, _, _)

\* the switch at the label doRead, for a field of (resolved) type t at ref
doRead(f, tag, t, ref, ctx, acc) ==
    CASE t.kind = "ptr" ->
            doRead(f, tag, t.elem[1], Append(ref, 0), ctx,
                   IF GetAt(acc.root, ref) = <<>>
                   THEN [acc EXCEPT !.root = SetAt(@, ref, <<Zero(t.elem[1])>>)]
                   ELSE acc)
      [] t.kind = "struct" ->
            readStruct(t, ref,
                       [ name |-> NameAppend(ctx.name, f.name),
                         optional |-> ctx.optional \/ tag.optional,
                         allowUnexported |-> ctx.allowUnexported ],
                       1, acc)
      [] OTHER ->
            [acc EXCEPT !.config = Append(@, NewField(ctx, f, tag, t, ref))]

readFieldSkipFirst(st, ref, ctx, i, acc, f, tag) ==
    IF tag.skip THEN readStruct(st, ref, ctx, i + 1, acc)
    ELSE IF ~CanSet(f)
    THEN IF ~ctx.allowUnexported
         THEN [acc EXCEPT !.err = "ErrUnexportedField"]
         ELSE readStruct(st, ref, ctx, i + 1, acc)
    ELSE With(doRead(f, tag, f.type, Append(ref, i), ctx, acc),
              LAMBDA r : IF r.err # "nil" THEN r
                         ELSE readStruct(st, ref, ctx, i + 1, r))

readFieldNoSkip(st, ref, ctx, i, acc, f, tag) ==
    IF ~CanSet(f)
    THEN IF ~ctx.allowUnexported
         THEN [acc EXCEPT !.err = "ErrUnexportedField"]
         ELSE readStruct(st, ref, ctx, i + 1, acc)
    ELSE With(doRead(f, tag, f.type, Append(ref, i), ctx, acc),
              LAMBDA r : IF r.err # "nil" THEN r
                         ELSE readStruct(st, ref, ctx, i + 1, r))

\* one turn of the loop of readStruct, for the field f with the parsed tag
readField(st, ref, ctx, i, acc, f, tag) ==
    IF tag.skip \/ ~CanSet(f)
    THEN IF ~CanSet(f) /\ ~ctx.allowUnexported
         THEN [acc EXCEPT !.err = "ErrUnexportedField"]
         ELSE readStruct(st, ref, ctx, i + 1, acc)
    ELSE With(doRead(f, tag, f.type, Append(ref, i), ctx, acc),
              LAMBDA r : IF r.err # "nil" THEN r
                         ELSE readStruct(st, ref, ctx, i + 1, r))

\* the loop of readStruct from field i (1-based) of the struct of type st at ref
readStruct(st, ref, ctx, i, acc) ==
    IF i > Len(st.fields) THEN acc
    ELSE With(parseTag(st.fields[i].tag),
              LAMBDA tag : readField(st, ref, ctx, i, acc, st.fields[i], tag))

\* ParseWithOptions(&conf, opts) for a conf of struct type t
parseWithOptions(t, root, opts) ==
    readStruct(t, <<>>,
               [ name |-> IF opts.Prefix # <<>> THEN NameAppend(<<>>, opts.Prefix)
                          ELSE <<>>,
                 optional |-> opts.AllOptional,
                 allowUnexported |-> opts.AllowUnexported ],
               1,
               [err |-> "nil", config |-> <<>>, root |-> root])

(***************************************************************************)
(* Field.Keys, Field.readValue                                             *)
(***************************************************************************)
NoError == [kind |-> "nil", msg |-> <<>>]
ErrorOf(kind, msg) == [kind |-> kind, msg |-> msg]

\* os.Getenv: the empty string for a variable that is not set
Getenv(e, key) == IF key \in DOMAIN e THEN e[key] ELSE <<>>

FieldKeys(fld) ==
    IF fld.customName # <<>> THEN <<fld.customName>> ELSE Keys(fld.name)

\* the loop over keys from index k: str is overwritten by every lookup and
\* the loop breaks at the first non-empty one
RECURSIVE getenvLoop(_, _, _, _)
getenvLoop(keys, k, e, seen) ==
    IF k > Len(keys) THEN [str |-> <<>>, looked |-> seen]
    ELSE IF Getenv(e, keys[k]) # <<>>
         THEN [str |-> Getenv(e, keys[k]), looked |-> Append(seen, keys[k])]
         ELSE getenvLoop(keys, k + 1, e, Append(seen, keys[k]))

KeysNotFound(keys) ==
    ErrorOf("keysNotFound",
            <<"k", "e", "y", "s", " ">> \o Join(keys, <<",", " ">>)
              \o <<" ", "n", "o", "t", " ", "f", "o", "u", "n", "d">>)

DefaultAlways(fld, got) ==
    IF fld.defaultVal # <<>>
    THEN [str |-> fld.defaultVal, err |-> NoError, looked |-> got.looked]
    ELSE IF got.str # <<>>
    THEN [str |-> got.str, err |-> NoError, looked |-> got.looked]
    ELSE IF fld.optional
    THEN [str |-> <<>>, err |-> NoError, looked |-> got.looked]
    ELSE [str |-> <<>>, err |-> KeysNotFound(FieldKeys(fld)), looked |-> got.looked]

\* the part of readValue after the loop; got = the loop's str and lookups
readValueTail(fld, got) ==
    IF got.str # <<>>
    THEN [str |-> got.str, err |-> NoError, looked |-> got.looked]
    ELSE IF fld.defaultVal # <<>>
    THEN [str |-> fld.defaultVal, err |-> NoError, looked |-> got.looked]
    ELSE IF fld.optional
    THEN [str |-> <<>>, err |-> NoError, looked |-> got.looked]
    ELSE [str |-> <<>>, err |-> KeysNotFound(FieldKeys(fld)), looked |-> got.looked]

readValue(fld, e) == readValueTail(fld, getenvLoop(FieldKeys(fld), 1, e, <<>>))

(***************************************************************************)
(* Conversion: parseValue, parseStruct, setSliceField                      *)
(***************************************************************************)
Digits == {"0", "1", "2", "3", "4", "5", "6", "7", "8", "9"}
DigitVal(c) == Ord(c) - Ord("0")

RECURSIVE DecimalFrom(_, _, _)
DecimalFrom(s, k, acc) ==
    IF k > Len(s) THEN acc ELSE DecimalFrom(s, k + 1, acc * 10 + DigitVal(s[k]))

AllDigits(s) == s # <<>> /\ \A k \in DOMAIN s : s[k] \in Digits

\* strconv.ParseInt(str, 10, 64): an optional sign and decimal digits (the
\* strings of the model are too short to leave the 64-bit range)
ParseInt(str) ==
    LET signed == str # <<>> /\ str[1] \in {"-", "+"}
        body == IF signed THEN Tail(str) ELSE str
    IN  IF AllDigits(body)
        THEN [err |-> NoError,
              val |-> IF signed /\ str[1] = "-" THEN 0 - DecimalFrom(body, 1, 0)
                      ELSE DecimalFrom(body, 1, 0)]
        ELSE [err |-> ErrorOf("ParseInt", str), val |-> 0]

\* strconv.ParseUint(str, 10, 64): decimal digits only
ParseUint(str) ==
    IF AllDigits(str)
    THEN [err |-> NoError, val |-> DecimalFrom(str, 1, 0)]
    ELSE [err |-> ErrorOf("ParseUint", str), val |-> 0]

Pow2(w) == 2 ^ w

\* reflect.Value.SetInt on an integer of width w: the low w bits, signed
SetInt(x, w) ==
    IF w >= 64 THEN x
    ELSE LET m == x % Pow2(w)
         IN  IF m >= Pow2(w - 1) THEN m - Pow2(w) ELSE m

\* reflect.Value.SetUint on an unsigned integer of width w: the low w bits
SetUint(x, w) == IF w >= 64 THEN x ELSE x % Pow2(w)

parseIntValue(t, old, str) ==
    LET p == ParseInt(str)
    IN  IF p.err # NoError THEN [err |-> p.err, val |-> old]
        ELSE [err |-> NoError, val |-> SetInt(p.val, t.bits)]

parseUintValue(t, old, str) ==
    LET p == ParseUint(str)
    IN  IF p.err # NoError THEN [err |-> p.err, val |-> old]
        ELSE [err |-> NoError, val |-> SetUint(p.val, t.bits)]

\* parseWithUnmarshaler: the Unmarshal method of the configuration's own type;
\* the types of the model keep the string they are given
parseWithUnmarshaler(old, str) == [err |-> NoError, val |-> str]

\* strings.Split(s, ",")
RECURSIVE SplitComma(_, _, _)
SplitComma(s, k, parts) ==
    IF k > Len(s) THEN parts
    ELSE IF s[k] = "," THEN SplitComma(s, k + 1, Append(parts, <<>>))
    ELSE SplitComma(s, k + 1, [parts EXCEPT ![Len(parts)] = Append(@, s[k])])

RECURSIVE parseValue(_, _, _)
RECURSIVE parseStructFields(_, _, _, _)

\* the loop of parseStruct from field i: every field is set from its token
parseStructFields(t, old, tokens, i) ==
    IF i > Len(t.fields) THEN [err |-> NoError, val |-> old]
    ELSE LET r == parseValue(t.fields[i].type, old[i], tokens[i])
             now == [old EXCEPT ![i] = r.val]
         IN  IF r.err # NoError THEN [err |-> r.err, val |-> now]
             ELSE parseStructFields(t, now, tokens, i + 1)

parseStruct(t, old, token) ==
    IF Len(token) < 2 THEN [err |-> ErrorOf("panic", token), val |-> old]
    ELSE LET tokens == SplitComma(SubSeq(token, 2, Len(token) - 1), 1, << <<>> >>)
         IN  IF Len(tokens) # Len(t.fields)
             THEN [err |-> ErrorOf("structTokens", token), val |-> old]
             ELSE parseStructFields(t, old, tokens, 1)

\* parseValue(v, str) for v of type t holding old: the error returned and
\* what v holds afterwards
parseValue(t, old, str) ==
    IF isUnmarshaler(t) THEN parseWithUnmarshaler(old, str)
    ELSE CASE t.kind = "int" -> parseIntValue(t, old, str)
           [] t.kind = "uint" -> parseUintValue(t, old, str)
           [] t.kind = "ptr" ->
                LET r == parseValue(t.elem[1], Zero(t.elem[1]), str)
                IN  [err |-> r.err, val |-> <<r.val>>]
           [] t.kind = "string" -> [err |-> NoError, val |-> str]
           [] t.kind = "struct" -> parseStruct(t, old, str)
           [] OTHER -> [err |-> ErrorOf("kindNotSupported", <<>>), val |-> old]

\* newSliceTokenizer/scan/text: the tokens of str, split on the commas that
\* are outside parentheses
RECURSIVE sliceTokens(_, _, _, _)
sliceTokens(str, k, depth, tokens) ==
    IF k > Len(str) THEN tokens
    ELSE IF str[k] = "," /\ depth = 0
         THEN sliceTokens(str, k + 1, depth, Append(tokens, <<>>))
         ELSE sliceTokens(str, k + 1,
                          IF str[k] = "(" THEN depth + 1
                          ELSE IF str[k] = ")" /\ depth > 0 THEN depth - 1
                          ELSE depth,
                          [tokens EXCEPT ![Len(tokens)] = Append(@, str[k])])

\* reflect.MakeSlice(type, len, cap): len zero elements
MakeSlice(t, len) == [i \in 1..len |-> Zero(t.elem[1])]

\* the loop of setSliceField from token k; slice is the slice built so far
RECURSIVE sliceLoop(_, _, _, _, _)
sliceLoop(t, old, tokens, k, slice) ==
    IF k > Len(tokens) THEN [err |-> NoError, val |-> slice]
    ELSE LET r == parseValue(t.elem[1], Zero(t.elem[1]), tokens[k])
         IN  IF r.err # NoError THEN [err |-> r.err, val |-> old]
             ELSE sliceLoop(t, old, tokens, k + 1, Append(slice, r.val))

setSliceField(t, old, str) ==
    sliceLoop(t, old, sliceTokens(str, 1, 0, << <<>> >>), 1, MakeSlice(t, Len(old)))

(***************************************************************************)
(* Field.setField and ConfInfo.Read                                        *)
(***************************************************************************)
\* the conversion setField dispatches to ([]byte fields, decoded from
\* base64, are not among the types of the model)
convert(t, old, str) ==
    IF t.kind = "slice" /\ ~isUnmarshaler(t)
    THEN setSliceField(t, old, str)
    ELSE parseValue(t, old, str)

\* setField after readValue returned rv
RecordAlwaysAfter(fld, root, rv) ==
    IF rv.err # NoError
    THEN [err |-> rv.err, fld |-> fld, root |-> root, looked |-> rv.looked]
    ELSE With(IF Len(rv.str) = 0 /\ fld.optional
              THEN [err |-> NoError, val |-> GetAt(root, fld.value)]
              ELSE convert(fld.typ, GetAt(root, fld.value), rv.str),
              LAMBDA cv :
                [ err |-> cv.err,
                  fld |-> [fld EXCEPT !.strValue = rv.str],
                  root |-> SetAt(root, fld.value, cv.val),
                  looked |-> rv.looked ])

NoRecordForDefaultAfter(fld, root, rv) ==
    IF rv.err # NoError
    THEN [err |-> rv.err, fld |-> fld, root |-> root, looked |-> rv.looked]
    ELSE IF Len(rv.str) = 0 /\ fld.optional
    THEN [err |-> NoError, fld |-> fld, root |-> root, looked |-> rv.looked]
    ELSE With(convert(fld.typ, GetAt(root, fld.value), rv.str),
              LAMBDA cv :
                [ err |-> cv.err,
                  fld |-> IF rv.str = fld.defaultVal THEN fld
                          ELSE [fld EXCEPT !.strValue = rv.str],
                  root |-> SetAt(root, fld.value, cv.val),
                  looked |-> rv.looked ])

setFieldAfter(fld, root, rv) ==
    IF rv.err # NoError
    THEN [err |-> rv.err, fld |-> fld, root |-> root, looked |-> rv.looked]
    ELSE IF Len(rv.str) = 0 /\ fld.optional
    THEN [err |-> NoError, fld |-> fld, root |-> root, looked |-> rv.looked]
    ELSE With(convert(fld.typ, GetAt(root, fld.value), rv.str),
              LAMBDA cv :
                [ err |-> cv.err,
                  fld |-> [fld EXCEPT !.strValue = rv.str],
                  root |-> SetAt(root, fld.value, cv.val),
                  looked |-> rv.looked ])

\* setField(fld.value): the error, the descriptor and the struct afterwards
\* and the keys looked up
setField(fld, root, e) ==
    With(readValue(fld, e), LAMBDA rv : setFieldAfter(fld, root, rv))

\* one turn of the loop of Read: descriptor i is set, and the loop goes on
\* unless that failed; st = [err, at, config, root, looked]
RECURSIVE readLoop(_, _, _)
readTurnBestEffort(i, st, e, r) ==
    readLoop(i + 1,
             [ err |-> IF st.err # NoError THEN st.err ELSE r.err,
               at |-> IF st.at # 0 THEN st.at ELSE IF r.err # NoError THEN i ELSE 0,
               config |-> [st.config EXCEPT ![i] = r.fld],
               root |-> r.root,
               looked |-> st.looked \o r.looked ],
             e)

readTurn(i, st, e, r) ==
    With([ err |-> r.err,
           at |-> IF r.err # NoError THEN i ELSE 0,
           config |-> [st.config EXCEPT ![i] = r.fld],
           root |-> r.root,
           looked |-> st.looked \o r.looked ],
         LAMBDA now : IF r.err # NoError THEN now ELSE readLoop(i + 1, now, e))

readLoop(i, st, e) ==
    IF i > Len(st.config) THEN st
    ELSE With(setField(st.config[i], st.root, e), LAMBDA r : readTurn(i, st, e, r))

\* cinfo.Read()
Read(config, root, e) ==
    readLoop(1, [err |-> NoError, at |-> 0, config |-> config, root |-> root,
                 looked |-> <<>>], e)

(***************************************************************************)
(* Keys() as a function of its path: the inputs and the call               *)
(***************************************************************************)
MaxSegLen == 3
MaxSegs == 2

Letters == {"A", "b"}

Segments == UNION { [1..n -> Letters] : n \in 1..MaxSegLen }

\* the paths of TestKeys
TestPaths ==
    { << <<"C","a","s","s","a","n","d","r","a","S","s","l","C","e","r","t">> >>,
      << <<"C","a","s","s","a","n","d","r","a","S","S","L","C","e","r","t">> >>,
      << <<"C","a","s","s","a","n","d","r","a">>, <<"S","s","l","C","e","r","t">> >>,
      << <<"C","a","s","s","a","n","d","r","a">>, <<"S","S","L","C","e","r","t">> >>,
      << <<"N","a","m","e">> >> }

Paths == UNION { [1..n -> Segments] : n \in 1..MaxSegs } \cup TestPaths

Idle ==
    /\ ctype = StructT(<<>>)
    /\ conf = <<>>
    /\ env = <<>>
    /\ cinfo = <<>>
    /\ options = OptionsOf(<<>>, FALSE, FALSE)
    /\ pstate = "off"
    /\ perr = "nil"
    /\ reads = 0
    /\ rerr = NoError
    /\ rat = 0
    /\ looked = <<>>

InitKeys ==
    /\ name \in Paths
    /\ res = <<>>
    /\ kpc = "in"
    /\ Idle

KeysCall ==
    /\ kpc = "in"
    /\ \E order \in RangeOrders(keyMap(name)) :
         res' = fieldNameKeys(name, order)
    /\ kpc' = "out"
    /\ UNCHANGED <<name, mvars>>

NextKeys == KeysCall

SpecKeys == InitKeys /\ [][NextKeys]_vars

(***************************************************************************)
(* The configuration structs and options the program is run on             *)
(***************************************************************************)
MaxDepth == 1
MaxReads == 2

FieldDecl(nm, tag, t) == [name |-> nm, tag |-> tag, type |-> t]

Int64T == IntT(64)

\* the names of the fields by nesting level
LevelNames == << <<"A", "b">>, <<"E", "f">>, <<"G", "h">>, <<"I", "j">> >>
TailName == <<"C", "d">>

Unexported(nm) == <<ToLowerRune(nm[1])>> \o Tail(nm)

\* tag and visibility of a field of the walk's structs
DeclForms ==
    { [tag |-> <<>>, exported |-> TRUE],
      [tag |-> <<"-">>, exported |-> TRUE],
      [tag |-> OptionalWord, exported |-> TRUE],
      [tag |-> <<>>, exported |-> FALSE],
      [tag |-> <<"-">>, exported |-> FALSE] }

LeafTypes == { StringT, SliceT(Int64T), PtrT(Int64T), WithUnmarshal(StringT) }

Wrap(how, t) ==
    CASE how = "ptr" -> PtrT(t)
      [] how = "unmarshaler" -> WithUnmarshal(t)
      [] OTHER -> t

\* the field declarations at a nesting level, nesting at most d structs below
RECURSIVE DeclsAt(_, _)
DeclsAt(d, level) ==
    LET types ==
            LeafTypes \cup
            (IF d = 0 THEN {}
             ELSE { Wrap(how, StructT(<<inner>>)) :
                        how \in {"plain", "ptr", "unmarshaler"},
                        inner \in DeclsAt(d - 1, level + 1) })
    IN  { FieldDecl(IF form.exported THEN LevelNames[level]
                    ELSE Unexported(LevelNames[level]),
                    form.tag, t) :
              form \in DeclForms, t \in types }

WalkStructs ==
    { StructT(<<first>> \o rest) :
          first \in DeclsAt(MaxDepth, 1),
          rest \in { <<>>, <<FieldDecl(TailName, <<>>, StringT)>> } }

WalkOptions ==
    { OptionsOf(prefix, allOptional, allowUnexported) :
          prefix \in { <<>>, <<"P">> },
          allOptional \in BOOLEAN, allowUnexported \in BOOLEAN }

\* the structs Read is run on: a first field of each sort of tag and type,
\* followed by a required integer read from the one key T
ReadFirstFields ==
    { FieldDecl(LevelNames[1], <<>>, StringT),
      FieldDecl(LevelNames[1], OptionalWord, StringT),
      FieldDecl(LevelNames[1], DefaultEq \o <<"9">>, StringT),
      FieldDecl(LevelNames[1], <<"K">>, IntT(8)),
      FieldDecl(LevelNames[1], <<>>, SliceT(Int64T)),
      FieldDecl(LevelNames[1], OptionalWord, StructT(<<FieldDecl(LevelNames[2], <<>>, StringT)>>)),
      FieldDecl(LevelNames[1], <<"-">>, StringT),
      FieldDecl(LevelNames[1], OptionalWord \o <<",">> \o DefaultEq \o <<"1", "\\", ",", "2">>,
                SliceT(Int64T)) }

\* and a struct of three fields, each read from one key
ThreeFields ==
    StructT(<< FieldDecl(LevelNames[1], <<"J">>, StringT),
               FieldDecl(TailName, <<"T">>, Int64T),
               FieldDecl(LevelNames[2], <<"L">>, SliceT(Int64T)) >>)

ReadStructs ==
    { StructT(<<first, FieldDecl(TailName, <<"T">>, Int64T)>>) : first \in ReadFirstFields }
    \cup {ThreeFields}

ReadOptions ==
    { OptionsOf(<<>>, allOptional, FALSE) : allOptional \in BOOLEAN }

\* the values the environment variables are set to
EnvVals == { <<>>, <<"1">>, <<"1", ",", "2">> }

(***************************************************************************)
(* The program: ParseWithOptions, os.Setenv, ConfInfo.Read                 *)
(***************************************************************************)
KeysIdle ==
    /\ name = <<>>
    /\ res = <<>>
    /\ kpc = "off"

InitWith(structs) ==
    /\ ctype \in structs
    /\ conf = Zero(ctype)
    /\ env = <<>>
    /\ cinfo = <<>>
    /\ options = OptionsOf(<<>>, FALSE, FALSE)
    /\ pstate = "new"
    /\ perr = "nil"
    /\ reads = 0
    /\ rerr = NoError
    /\ rat = 0
    /\ looked = <<>>
    /\ KeysIdle

Init == InitWith(ReadStructs)

InitWalk == InitWith(WalkStructs)

ParseWithOptions(opts) ==
    /\ pstate = "new"
    /\ \E r \in {parseWithOptions(ctype, conf, opts)} :
           /\ cinfo' = r.config
           /\ conf' = r.root
           /\ perr' = r.err
           /\ pstate' = IF r.err = "nil" THEN "parsed" ELSE "failed"
    /\ options' = opts
    /\ UNCHANGED <<kvars, ctype, env, reads, rerr, rat, looked>>

\* the keys some descriptor of cinfo looks up
KeysInUse == UNION { Range(FieldKeys(cinfo[i])) : i \in DOMAIN cinfo }

\* os.Setenv(key, val), for the variables the descriptors look up
Setenv(key, val) ==
    /\ pstate = "parsed"
    /\ env' = [k \in DOMAIN env \cup {key} |-> IF k = key THEN val ELSE env[k]]
    /\ UNCHANGED <<kvars, ctype, conf, cinfo, options, pstate, perr, reads, rerr, rat, looked>>

ReadCall ==
    /\ pstate = "parsed"
    /\ reads < MaxReads
    /\ \E r \in {Read(cinfo, conf, env)} :
           /\ cinfo' = r.config
           /\ conf' = r.root
           /\ rerr' = r.err
           /\ rat' = r.at
           /\ looked' = r.looked
    /\ reads' = reads + 1
    /\ UNCHANGED <<kvars, ctype, env, options, pstate, perr>>

Next ==
    \/ \E opts \in ReadOptions : ParseWithOptions(opts)
    \/ \E key \in KeysInUse, val \in EnvVals : Setenv(key, val)
    \/ ReadCall

Spec == Init /\ [][Next]_vars

NextWalk ==
    \/ \E opts \in WalkOptions : ParseWithOptions(opts)
    \/ ReadCall

SpecWalk == InitWalk /\ [][NextWalk]_vars

(***************************************************************************)
(* The program run on one integer field of each width and signedness       *)
(***************************************************************************)
\* the integer types of the fields (the widths whose range the integers of
\* the model checker can hold, and the full width of strconv)
IntegerTypes == { IntT(8), IntT(16), IntT(64), UintT(8), UintT(16), UintT(64) }

\* struct{ Ab T `envconfig:"K"` } for each integer type T
ConvStructs ==
    { StructT(<<FieldDecl(LevelNames[1], <<"K">>, t)>>) : t \in IntegerTypes }

\* the values the variable K is set to: decimal strings at and next to the
\* limits of the 8 and 16 bit types, signed ones, and strings that are no number
ConvVals ==
    { <<>>, <<"1">>, <<"-", "1">>, <<"+", "1">>, <<"a">>, <<"1", "a">>,
      <<"1", "2", "7">>, <<"1", "2", "8">>, <<"-", "1", "2", "8">>, <<"-", "1", "2", "9">>,
      <<"2", "5", "5">>, <<"2", "5", "6">>, <<"3", "0", "0">>,
      <<"3", "2", "7", "6", "7">>, <<"3", "2", "7", "6", "8">>,
      <<"-", "3", "2", "7", "6", "9">>,
      <<"6", "5", "5", "3", "5">>, <<"6", "5", "5", "3", "6">> }

InitConv == InitWith(ConvStructs)

NextConv ==
    \/ \E opts \in ReadOptions : ParseWithOptions(opts)
    \/ \E key \in KeysInUse, val \in ConvVals : Setenv(key, val)
    \/ ReadCall

SpecConv == InitConv /\ [][NextConv]_vars

(***************************************************************************)
(* Claims about fieldName.Keys (checked under SpecKeys)                    *)
(***************************************************************************)
StrictlyAscending(seq) ==
    \A i, j \in DOMAIN seq : i < j => StrLess(seq[i], seq[j])

CassandraSslCert == <<"C","a","s","s","a","n","d","r","a","S","s","l","C","e","r","t">>
CassandraSSLCert == <<"C","a","s","s","a","n","d","r","a","S","S","L","C","e","r","t">>
Cassandra == <<"C","a","s","s","a","n","d","r","a">>
SslCert == <<"S","s","l","C","e","r","t">>
SSLCert == <<"S","S","L","C","e","r","t">>

K_CASSANDRASSLCERT == <<"C","A","S","S","A","N","D","R","A","S","S","L","C","E","R","T">>
K_CASSANDRA_SSL_CERT ==
    <<"C","A","S","S","A","N","D","R","A","_","S","S","L","_","C","E","R","T">>
K_CASSANDRA_SSLCERT ==
    <<"C","A","S","S","A","N","D","R","A","_","S","S","L","C","E","R","T">>

TestKeysTable(nm) ==
    IF nm \in { <<CassandraSslCert>>, <<CassandraSSLCert>> }
    THEN << K_CASSANDRASSLCERT, K_CASSANDRA_SSL_CERT,
            ToLower(K_CASSANDRA_SSL_CERT), ToLower(K_CASSANDRASSLCERT) >>
    ELSE IF nm \in { <<Cassandra, SslCert>>, <<Cassandra, SSLCert>> }
    THEN << K_CASSANDRA_SSLCERT, K_CASSANDRA_SSL_CERT,
            ToLower(K_CASSANDRA_SSL_CERT), ToLower(K_CASSANDRA_SSLCERT) >>
    ELSE << <<"N","A","M","E">>, <<"n","a","m","e">> >>

\* C4: whatever order the map iteration yields, Keys() returns exactly the
\* upper-case and lower-case spellings of the two joined forms of the path,
\* each once, in strictly ascending byte-wise order; the five paths of
\* TestKeys give the key lists the test expects.
C4_KeysSortedSet ==
    kpc = "out" =>
        /\ Range(res) = { ToUpper(bufOf(name, 1)), ToLower(bufOf(name, 1)),
                          ToUpper(buf2Of(name, 1)), ToLower(buf2Of(name, 1)) }
        /\ StrictlyAscending(res)
        /\ name \in TestPaths => res = TestKeysTable(name)

\* Keys() has returned four keys for a path of TestKeys
C4_Witness ==
    /\ kpc = "out"
    /\ name = <<Cassandra, SSLCert>>
    /\ Len(res) = 4

\* the word-boundary form of one segment as the claim C5 describes it: an
\* underscore before every uppercase letter that is not the first character
\* and has a lowercase letter directly before or directly after it
RECURSIVE ClaimedPartFrom(_, _)
ClaimedPartFrom(n, k) ==
    IF k > Len(n) THEN <<>>
    ELSE (IF /\ k > 1
             /\ IsUpper(n[k])
             /\ (IsLower(n[k - 1]) \/ (k < Len(n) /\ IsLower(n[k + 1])))
          THEN <<"_", n[k]>>
          ELSE <<n[k]>>) \o ClaimedPartFrom(n, k + 1)

RECURSIVE ClaimedBuf(_, _)
ClaimedBuf(nm, j) ==
    IF j > Len(nm) THEN <<>>
    ELSE (IF j > 1 THEN <<"_">> ELSE <<>>)
         \o ClaimedPartFrom(nm[j], 1) \o ClaimedBuf(nm, j + 1)

\* C5: the word-boundary keys Keys() returns are the spellings of the path
\* with an underscore before every uppercase letter that is not the first
\* character of its segment and has a lowercase letter directly before or
\* after it, the second and the last character of a segment included.
C5_BoundaryAtEveryPosition ==
    kpc = "out" =>
        /\ ToUpper(ClaimedBuf(name, 1)) \in Range(res)
        /\ ToLower(ClaimedBuf(name, 1)) \in Range(res)

(***************************************************************************)
(* Claims about ConfInfo.Read (checked under Spec)                         *)
(***************************************************************************)
\* a step of Read
ReadStep == reads' = reads + 1

\* the last descriptor the Read of this step handled
LastHandled == IF rerr' = NoError THEN Len(cinfo) ELSE rat'

\* Read handled descriptor i in this step / and did not fail at it
Handled(i) == i <= LastHandled
Passed(i) == Handled(i) /\ (rerr' = NoError \/ i # rat')

\* the indexes of the keys of fld that have a non-empty value in e
Hits(fld, e) ==
    { k \in DOMAIN FieldKeys(fld) : Getenv(e, FieldKeys(fld)[k]) # <<>> }

FirstHit(fld, e) == CHOOSE k \in Hits(fld, e) : \A j \in Hits(fld, e) : k <= j

\* the keys a resolution has to try: up to the first with a non-empty value
TriedKeys(fld, e) ==
    IF Hits(fld, e) = {} THEN FieldKeys(fld)
    ELSE SubSeq(FieldKeys(fld), 1, FirstHit(fld, e))

RECURSIVE TriedUpTo(_, _, _)
TriedUpTo(config, e, n) ==
    IF n = 0 THEN <<>> ELSE TriedUpTo(config, e, n - 1) \o TriedKeys(config[n], e)

\* the string the resolution order gives fld: the first non-empty value, or
\* else the default (which is empty when there is none)
Resolved(fld, e) ==
    IF Hits(fld, e) # {} THEN Getenv(e, FieldKeys(fld)[FirstHit(fld, e)])
    ELSE fld.defaultVal

\* C1: in every Read, each descriptor handled looks up only its custom name
\* when it has one and else its derived keys in the order of Keys(), up to the
\* first non-empty value, which is the string resolved; with no non-empty
\* value the non-empty default is resolved; with neither, an optional field
\* passes and a required one fails Read with the keys-not-found error that
\* names every key tried.  A variable set to the empty string is as unset.
C1_ResolutionOrder ==
    [][ReadStep =>
        /\ looked' = TriedUpTo(cinfo, env, LastHandled)
        /\ \A i \in DOMAIN cinfo : Handled(i) =>
             /\ cinfo[i].customName # <<>> => TriedKeys(cinfo[i], env) = <<cinfo[i].customName>>
             /\ IF Resolved(cinfo[i], env) # <<>>
                THEN /\ cinfo'[i].strValue = Resolved(cinfo[i], env)
                     /\ ~(i = rat' /\ rerr'.kind = "keysNotFound")
                ELSE IF cinfo[i].optional
                THEN Passed(i)
                ELSE /\ i = rat'
                     /\ rerr' = KeysNotFound(FieldKeys(cinfo[i]))]_vars

\* a Read has resolved the value of the second derived key of a descriptor,
\* the first being set to the empty string
C1_Witness ==
    /\ reads = 1
    /\ rerr = NoError
    /\ Len(cinfo) = 2
    /\ cinfo[1].customName = <<>>
    /\ looked = Keys(cinfo[1].name) \o <<cinfo[2].customName>>
    /\ Keys(cinfo[1].name)[1] \in DOMAIN env
    /\ env[Keys(cinfo[1].name)[1]] = <<>>
    /\ cinfo[1].strValue = <<"1">>
    /\ Getenv(env, Keys(cinfo[1].name)[2]) = <<"1">>

\* C2: Read is fail-fast.  When it fails at descriptor i: every descriptor
\* before i passed, the error is that of descriptor i, no descriptor after i
\* was looked up, recorded or written, and the targets of the descriptors
\* before i hold what was written to them.  When it returns nil every
\* non-optional descriptor has a non-empty recorded value.
C2_FailFast ==
    [][ReadStep =>
        /\ rerr' # NoError =>
             /\ rat' \in DOMAIN cinfo
             /\ rerr' = setField(cinfo[rat'], conf, env).err
             /\ looked' = TriedUpTo(cinfo, env, rat')
             /\ \A j \in DOMAIN cinfo :
                  /\ j > rat' =>
                       /\ cinfo'[j] = cinfo[j]
                       /\ GetAt(conf', cinfo[j].value) = GetAt(conf, cinfo[j].value)
                  /\ j < rat' =>
                       /\ setField(cinfo[j], conf, env).err = NoError
                       /\ cinfo'[j] = setField(cinfo[j], conf, env).fld
                       /\ GetAt(conf', cinfo[j].value)
                            = GetAt(setField(cinfo[j], conf, env).root, cinfo[j].value)
        /\ rerr' = NoError =>
             /\ rat' = 0
             /\ \A i \in DOMAIN cinfo : ~cinfo[i].optional => cinfo'[i].strValue # <<>>]_vars

\* a Read failed at the second of three descriptors: the first was written,
\* the third was left alone
C2_Witness ==
    /\ reads = 1
    /\ rerr # NoError
    /\ rat = 2
    /\ Len(cinfo) = 3
    /\ cinfo[1].strValue = <<"1">>
    /\ GetAt(conf, cinfo[1].value) = <<"1">>
    /\ Getenv(env, <<"L">>) = <<"1">>
    /\ cinfo[3].strValue = <<>>
    /\ GetAt(conf, cinfo[3].value) = <<>>

\* the tags of the fields on the way to the value at ref in a struct of type t
RECURSIVE TagsOnPath(_, _)
TagsOnPath(t, ref) ==
    IF ref = <<>> THEN {}
    ELSE IF Head(ref) = 0 THEN TagsOnPath(t.elem[1], Tail(ref))
    ELSE {t.fields[Head(ref)].tag} \cup TagsOnPath(t.fields[Head(ref)].type, Tail(ref))

\* C3: a descriptor is optional exactly when AllOptional is set or the tag of
\* its field or of an enclosing struct field says optional; a Read passes an
\* optional descriptor that has no non-empty value under any key and no
\* default, and leaves its target and its recorded value as they were.
C3_OptionalLeftAlone ==
    [][/\ \A i \in DOMAIN cinfo :
            cinfo[i].optional <=>
                \/ options.AllOptional
                \/ \E tg \in TagsOnPath(ctype, cinfo[i].value) : parseTag(tg).optional
       /\ ReadStep =>
            \A i \in DOMAIN cinfo :
                ( /\ Handled(i)
                  /\ cinfo[i].optional
                  /\ Hits(cinfo[i], env) = {}
                  /\ cinfo[i].defaultVal = <<>> )
                => /\ Passed(i)
                   /\ cinfo'[i] = cinfo[i]
                   /\ GetAt(conf', cinfo[i].value) = GetAt(conf, cinfo[i].value)]_vars

\* the second Read found nothing for a field that is optional through its
\* enclosing struct and that the first Read had set
C3_Witness ==
    /\ reads = 2
    /\ rerr = NoError
    /\ ~options.AllOptional
    /\ cinfo[1].optional
    /\ Len(cinfo[1].name) = 2
    /\ \A k \in DOMAIN Keys(cinfo[1].name) : Keys(cinfo[1].name)[k] \in DOMAIN env
    /\ Hits(cinfo[1], env) = {}
    /\ looked = Keys(cinfo[1].name) \o <<cinfo[2].customName>>
    /\ cinfo[1].strValue = <<"1">>
    /\ GetAt(conf, cinfo[1].value) = <<"1">>

\* C9 as stated: Value() is empty before the first Read, and after a Read
\* that returns nil the Value() of every descriptor is the string this Read
\* resolved for it, never one of an earlier Read.
C9_ValueIsLatestResolved ==
    [][/\ reads = 0 => \A i \in DOMAIN cinfo : cinfo[i].strValue = <<>>
       /\ (ReadStep /\ rerr' = NoError) =>
            \A i \in DOMAIN cinfo : cinfo'[i].strValue = Resolved(cinfo[i], env)]_vars

\* C9 amended: Value() is empty before the first Read; after a Read that
\* returns nil the Value() of a descriptor is the string this Read resolved
\* for it when that is non-empty, and is what it was before this Read when
\* this Read resolved the empty string (an optional field without value).
C9_ValueKeptWhenNothingResolved ==
    [][/\ reads = 0 => \A i \in DOMAIN cinfo : cinfo[i].strValue = <<>>
       /\ (ReadStep /\ rerr' = NoError) =>
            \A i \in DOMAIN cinfo :
                cinfo'[i].strValue =
                    IF Resolved(cinfo[i], env) # <<>> THEN Resolved(cinfo[i], env)
                    ELSE cinfo[i].strValue]_vars

\* after two Reads that returned nil a descriptor reports the value of the
\* environment for one field and the default for another
C9_Witness ==
    /\ reads = 2
    /\ rerr = NoError
    /\ Len(cinfo) = 2
    /\ cinfo[1].defaultVal = <<"9">>
    /\ cinfo[1].strValue = <<"9">>
    /\ looked = Keys(cinfo[1].name) \o <<cinfo[2].customName>>
    /\ cinfo[2].strValue = <<"1">>

\* C10: after a Read has populated a slice field from a string of n tokens
\* that all convert, the field holds exactly the n converted tokens in token
\* order, whatever it held before.
C10_SliceIsTheTokens ==
    [][ReadStep =>
        \A i \in DOMAIN cinfo :
            ( /\ Passed(i)
              /\ cinfo[i].typ.kind = "slice"
              /\ ~isUnmarshaler(cinfo[i].typ)
              /\ Resolved(cinfo[i], env) # <<>> )
            => GetAt(conf', cinfo[i].value) =
                 [ k \in DOMAIN sliceTokens(Resolved(cinfo[i], env), 1, 0, << <<>> >>) |->
                     parseValue(cinfo[i].typ.elem[1], Zero(cinfo[i].typ.elem[1]),
                                sliceTokens(Resolved(cinfo[i], env), 1, 0, << <<>> >>)[k]).val ]]_vars

\* C12: Read is idempotent under an unchanged environment: when a Read has
\* returned nil and the Read called next, the environment being the same,
\* returns nil too, every field of the struct and the recorded value of
\* every descriptor are after the second call what they were after the
\* first, slice fields included.
C12_ReadIdempotent ==
    [][(ReadStep /\ rerr' = NoError) =>
        \E again \in {Read(cinfo', conf', env')} :
            again.err = NoError =>
                /\ again.root = conf'
                /\ again.config = cinfo']_vars

(***************************************************************************)
(* Claims about integer conversion (checked under SpecConv)                *)
(***************************************************************************)
\* str is a decimal numeral: digits, after a sign when the type is signed
IsNumeral(t, str) ==
    \/ AllDigits(str)
    \/ t.kind = "int" /\ str # <<>> /\ str[1] \in {"-", "+"} /\ AllDigits(Tail(str))

\* the integer a decimal numeral denotes
Denoted(str) ==
    IF str[1] = "-" THEN 0 - DecimalFrom(Tail(str), 1, 0)
    ELSE IF str[1] = "+" THEN DecimalFrom(Tail(str), 1, 0)
    ELSE DecimalFrom(str, 1, 0)

\* x is in the range of the integer type t (the numerals of the model are
\* all in the range of the 64 bit types)
InRangeOf(t, x) ==
    IF t.kind = "uint"
    THEN x >= 0 /\ (t.bits >= 64 \/ x < 2 ^ t.bits)
    ELSE t.bits >= 64 \/ (x >= 0 - 2 ^ (t.bits - 1) /\ x < 2 ^ (t.bits - 1))

\* C11: when Read converts a resolved string into an integer field of width
\* w, signed or unsigned, without returning an error, the string is a decimal
\* numeral whose value is in the range of the field's type and the field
\* holds exactly that value: a value outside the range is an error and is
\* never stored truncated modulo 2^w.
C11_IntegerExactOrError ==
    [][ReadStep =>
        \A i \in DOMAIN cinfo :
            ( /\ Passed(i)
              /\ cinfo[i].typ.kind \in {"int", "uint"}
              /\ Resolved(cinfo[i], env) # <<>> )
            => /\ IsNumeral(cinfo[i].typ, Resolved(cinfo[i], env))
               /\ InRangeOf(cinfo[i].typ, Denoted(Resolved(cinfo[i], env)))
               /\ GetAt(conf', cinfo[i].value) = Denoted(Resolved(cinfo[i], env))]_vars

(***************************************************************************)
(* Claims about the walk (checked under SpecWalk)                          *)
(***************************************************************************)
\* the type a field has after following pointers
RECURSIVE Deref(_)
Deref(t) == IF t.kind = "ptr" THEN Deref(t.elem[1]) ELSE t

Exported(f) == IsUpper(f.name[1])

\* the tag holds the directive "-"
TaggedSkip(f) == <<"-">> \in Range(SplitComma(f.tag, 1, << <<>> >>))

IsPrefix(p, q) == Len(p) <= Len(q) /\ SubSeq(q, 1, Len(p)) = p

\* the first path segment the prefix of the options gives
NamePrefix == IF options.Prefix # <<>> THEN <<options.Prefix>> ELSE <<>>

\* the paths of the fields tagged skip, anywhere in the struct type t
RECURSIVE SkippedPaths(_, _)
SkippedPaths(t, base) ==
    UNION { (IF TaggedSkip(t.fields[k]) THEN {Append(base, t.fields[k].name)} ELSE {})
            \cup (IF Deref(t.fields[k].type).kind = "struct"
                  THEN SkippedPaths(Deref(t.fields[k].type), Append(base, t.fields[k].name))
                  ELSE {}) :
            k \in DOMAIN t.fields }

\* every field tagged skip in the value v of type t holds its zero value
RECURSIVE SkippedUntouched(_, _)
SkippedUntouched(t, v) ==
    CASE t.kind = "ptr" -> v = <<>> \/ SkippedUntouched(t.elem[1], v[1])
      [] t.kind = "struct" ->
            \A k \in DOMAIN t.fields :
                IF TaggedSkip(t.fields[k]) THEN v[k] = Zero(t.fields[k].type)
                ELSE SkippedUntouched(t.fields[k].type, v[k])
      [] OTHER -> TRUE

\* C6: the descriptor list holds no descriptor for a field tagged skip nor
\* for a field below a skipped struct field; no Read on the list looks up a
\* key of a skipped field or writes to one.
C6_SkippedNeverRegistered ==
    pstate # "new" =>
        /\ \A i \in DOMAIN cinfo : \A sp \in SkippedPaths(ctype, NamePrefix) :
              ~IsPrefix(sp, cinfo[i].name)
        /\ \A sp \in SkippedPaths(ctype, NamePrefix) :
              Range(looked) \cap Range(Keys(sp)) = {}
        /\ SkippedUntouched(ctype, conf)

\* a Read has run on the list of a struct whose first field is a skipped
\* struct: only the key of the field after it was looked up
C6_Witness ==
    /\ pstate = "parsed"
    /\ reads = 1
    /\ TaggedSkip(ctype.fields[1])
    /\ Deref(ctype.fields[1].type).kind = "struct"
    /\ Len(cinfo) = 1
    /\ cinfo[1].name = NamePrefix \o <<TailName>>
    /\ looked = Keys(cinfo[1].name)

\* the leaves the walk registers according to C7: it recurses into the
\* settable, non-skipped struct fields that are no Unmarshaler, and every
\* other settable, non-skipped field is one leaf
RECURSIVE ClaimedLeaves(_, _)
ClaimedLeaves(t, base) ==
    UNION { IF ~Exported(t.fields[k]) \/ TaggedSkip(t.fields[k]) THEN {}
            ELSE IF Deref(t.fields[k].type).kind = "struct"
                    /\ ~isUnmarshaler(Deref(t.fields[k].type))
            THEN ClaimedLeaves(Deref(t.fields[k].type), Append(base, t.fields[k].name))
            ELSE {Append(base, t.fields[k].name)} :
            k \in DOMAIN t.fields }

\* C7: after a walk the descriptors are exactly the leaves: one for every
\* settable non-skipped field that is an Unmarshaler (a struct or not) or of
\* a kind other than struct, reached through struct fields that are no
\* Unmarshaler, each with the path of its field.
C7_UnmarshalerStructIsLeaf ==
    pstate = "parsed" =>
        /\ Range([i \in DOMAIN cinfo |-> cinfo[i].name]) = ClaimedLeaves(ctype, NamePrefix)
        /\ Len(cinfo) = Cardinality(ClaimedLeaves(ctype, NamePrefix))

\* an unexported field is in t or in a struct reached through exported,
\* non-skipped struct fields of t
RECURSIVE UnexportedReachable(_)
UnexportedReachable(t) ==
    \E k \in DOMAIN t.fields :
        \/ ~Exported(t.fields[k])
        \/ /\ ~TaggedSkip(t.fields[k])
           /\ Deref(t.fields[k].type).kind = "struct"
           /\ UnexportedReachable(Deref(t.fields[k].type))

\* C8: ParseWithOptions fails with ErrUnexportedField exactly when
\* AllowUnexported is false and an unexported field is in the root struct or
\* in a struct reached through exported non-skipped struct fields, a skipped
\* unexported field included; with AllowUnexported it never fails and no
\* descriptor is one of an unexported field.
C8_UnexportedField ==
    pstate # "new" =>
        /\ perr = "ErrUnexportedField"
             <=> (~options.AllowUnexported /\ UnexportedReachable(ctype))
        /\ perr \in {"nil", "ErrUnexportedField"}
        /\ pstate = "failed" <=> perr # "nil"
        /\ options.AllowUnexported =>
             \A i \in DOMAIN cinfo : \A k \in DOMAIN cinfo[i].name :
                 k > Len(NamePrefix) => IsUpper(cinfo[i].name[k][1])

\* the walk failed on a first field that is unexported and tagged skip
C8_Witness ==
    /\ pstate = "failed"
    /\ perr = "ErrUnexportedField"
    /\ ~Exported(ctype.fields[1])
    /\ TaggedSkip(ctype.fields[1])

====
